---- MODULE Spec2Model ----
(***************************************************************************)
(* Model of scripts/list_forks.py: the GitHub fork lister.                 *)
(*                                                                         *)
(* The script is one sequential control flow.  main() calls                *)
(* collect_fork_data(), which for every configured repository fetches the  *)
(* repository metadata, walks the lazily paginated fork listing and, for   *)
(* every fork, does a branch lookup and a compare lookup; main() then      *)
(* sorts the collected rows and writes them as CSV.                        *)
(*                                                                         *)
(* The remote API is the environment: the answer to every request is       *)
(* chosen nondeterministically when the request is made.  Text is          *)
(* modelled as a sequence of tokens (the empty string is <<>>), a JSON     *)
(* key that is missing as the value None (strings) or Absent (numbers).    *)
(***************************************************************************)
EXTENDS Integers, Sequences, FiniteSets, TLC

\* ------------------------------------------------------------------ bounds
\* pages the remote serves for one forks enumeration
MaxPages == 2
\* fork items the remote serves during one run, all repositories together
MaxForks == 2

\* --------------------------------------------------------- program constants
UPSTREAM_OWNER == "SysML-v2"

REPOSITORIES ==
  <<"SysML-v2-API-Services", "SysML-v2-Pilot-Implementation", "SysML-v2-Release">>

API_ROOT == "https://api.github.com"

\* params={"per_page": 100, "sort": "stargazers"}
FORKS_PARAMS == <<"per_page=100", "sort=stargazers">>

\* the threshold of `file_info.get("changes", 0) > 200`
NOTABLE_THRESHOLD == 200

\* notable_diffs = ["<compare failed>"]
COMPARE_FAILED == "<compare failed>"

\* dt.datetime.min.replace(tzinfo=utc).timestamp(), in hours
MIN_TIMESTAMP == -17259888

\* ------------------------------------------------------------ JSON helpers
\* a missing key or a JSON null where a string is expected
None == "None"
\* a missing key where a number is expected
Absent == -1

\* Python's `x or "main"`: None and "" are falsy
OrMain(x) == IF x = None \/ x = "" THEN "main" ELSE x

\* Python's dict.get(key, 0) on a numeric key
GetOrZero(x) == IF x = Absent THEN 0 ELSE x

\* ------------------------------------------------------------ text helpers
RECURSIVE LStrip(_, _)
LStrip(s, chars) ==
  IF s # <<>> /\ Head(s) \in chars THEN LStrip(Tail(s), chars) ELSE s

RECURSIVE RStrip(_, _)
RStrip(s, chars) ==
  IF s # <<>> /\ s[Len(s)] \in chars
  THEN RStrip(SubSeq(s, 1, Len(s) - 1), chars)
  ELSE s

\* str.strip(chars); str.strip() strips white space
Strip(s, chars) ==
  CHOOSE stripped \in { RStrip(left, chars) : left \in {LStrip(s, chars)} } : TRUE

WHITESPACE == {" "}

\* str.split(sep): the pieces between the separators, at least one piece
\* (the pieces lie between the cuts, the positions of the separators)
PiecesBetween(s, cuts) ==
  LET n == Cardinality(cuts)
      cut(k) == IF k = 0 THEN 0
                ELSE IF k = n + 1 THEN Len(s) + 1
                ELSE CHOOSE i \in cuts : Cardinality({j \in cuts : j < i}) = k - 1
  IN  [k \in 1..(n + 1) |-> SubSeq(s, cut(k - 1) + 1, cut(k) - 1)]

Split(s, sep) ==
  CHOOSE pieces \in { PiecesBetween(v, {i \in 1..Len(v) : v[i] = sep}) : v \in {s} } :
    TRUE

\* sep.join(list): the items with the separator between two neighbours
RECURSIVE Join(_, _)
Join(sep, list) ==
  IF list = <<>> THEN <<>>
  ELSE IF Len(list) = 1 THEN <<list[1]>>
  ELSE <<list[1], sep>> \o Join(sep, Tail(list))

\* ------------------------------------------------------------------- URLs
\* f"{API_ROOT}/repos/{UPSTREAM_OWNER}/{repo_name}"
RepoUrl(repo_name) == <<API_ROOT, "/repos/", UPSTREAM_OWNER, "/", repo_name>>

\* f"{API_ROOT}/repos/{UPSTREAM_OWNER}/{repo_name}/forks"
ForksUrl(repo_name) == RepoUrl(repo_name) \o <<"/forks">>

\* f"{API_ROOT}/repos/{fork_owner}/{fork['name']}/branches/{default_branch}"
BranchUrl(fork_owner, name, default_branch) ==
  <<API_ROOT, "/repos/", fork_owner, "/", name, "/branches/", default_branch>>

\* f".../compare/{upstream_default_branch}...{fork_owner}:{default_branch}"
CompareUrl(repo_name, base, fork_owner, default_branch) ==
  RepoUrl(repo_name) \o <<"/compare/", base, "...", fork_owner, ":", default_branch>>

\* urllib.parse.urlparse(url).query is non-empty
HasQuery(url) == \E i \in 1..Len(url) : url[i] = "?"

\* GitHubClient.request: the URL that is opened; params are appended only
\* when they are truthy (neither None nor empty)
RequestUrl(url, params) ==
  IF params = <<>> THEN url
  ELSE url \o <<IF HasQuery(url) THEN "&" ELSE "?">> \o Join("&", params)

\* ------------------------------------------------------------ Link header
\* The raw header is a sequence of tokens, "," and ";" among them.  Split,
\* a header is the list of its comma-separated parts, a part the list of its
\* semicolon-separated segments, a segment a sequence of tokens.
\* RelNext without the quotes around the relation
RelNext_unquoted == <<"rel=", "next">>

\* line 74: the segment 'rel="next"'
RelNext == <<"rel=", "\"", "next", "\"">>

\* lines 67 and 69: the parts of the header, stripped and split at ";"
SplitHeader(raw) ==
  CHOOSE sections \in
      { [i \in 1..Len(parts) |-> Split(Strip(parts[i], WHITESPACE), ";")] :
          parts \in {Split(raw, ",")} } :
    TRUE

\* NextUrl looking at the first part of the header only
NextUrl_first_part(link_header) ==
  IF link_header = <<>> \/ Len(Head(link_header)) < 2 THEN <<>>
  ELSE IF Strip(Head(link_header)[2], WHITESPACE) = RelNext
       THEN Strip(Strip(Head(link_header)[1], WHITESPACE), {"<", ">"})
       ELSE <<>>

\* lines 68-76 of paginate, on the split header: the URL of the first part
\* whose second segment is rel="next", <<>> (None) when there is none
NextUrl(link_header) ==
  LET hits == {i \in 1..Len(link_header) :
                 /\ Len(link_header[i]) >= 2
                 /\ Strip(link_header[i][2], WHITESPACE) = RelNext}
  IN  IF hits = {} THEN <<>>
      ELSE CHOOSE url \in
             { Strip(Strip(link_header[first][1], WHITESPACE), {"<", ">"}) :
                 first \in {i \in hits : \A j \in hits : i <= j} } :
             TRUE

\* lines 64-76: next_url after the page with the raw header link_header
ParseLink(raw) ==
  IF raw = <<>> THEN <<>>
  ELSE CHOOSE url \in { NextUrl(sections) : sections \in {SplitHeader(raw)} } : TRUE

\* ------------------------------------------------------------------ dates
\* An ISO timestamp is the token sequence <<date, "T", time, zone>>.
\* iso_str.replace("Z", "+00:00")
ReplaceZ(iso_str) ==
  [i \in 1..Len(iso_str) |-> IF iso_str[i] = "Z" THEN "+00:00" ELSE iso_str[i]]

\* days since 1970-01-01 of a calendar date
DayNumber(d) ==
  CASE d = "2024-01-02" -> 19724
    [] d = "2024-06-01" -> 19875

HourOf(t) ==
  CASE t = "00:00:00" -> 0
    [] t = "01:00:00" -> 1

OffsetHours(z) ==
  CASE z = "+00:00" -> 0
    [] z = "+01:00" -> 1

\* iso_to_datetime(iso_str).timestamp(), in hours since the epoch
IsoTimestamp(iso_str) ==
  LET s == ReplaceZ(iso_str)
  IN  DayNumber(s[1]) * 24 + HourOf(s[3]) - OffsetHours(s[4])

\* sort_key with the stars ascending
sort_key_stars_ascending(item) ==
  LET date == IF item.last_commit_date # <<>>
              THEN IsoTimestamp(item.last_commit_date)
              ELSE MIN_TIMESTAMP
  IN  <<-date, item.stars>>

\* sort_key with an absent date taken as the newest date (datetime.max)
sort_key_absent_newest(item) ==
  LET date == IF item.last_commit_date # <<>>
              THEN IsoTimestamp(item.last_commit_date)
              ELSE -MIN_TIMESTAMP
  IN  <<-date, -item.stars>>

\* main.sort_key: (-date.timestamp(), -item.get("stars", 0))
sort_key(item) ==
  LET date == IF item.last_commit_date # <<>>
              THEN IsoTimestamp(item.last_commit_date)
              ELSE MIN_TIMESTAMP
  IN  <<-date, -item.stars>>

\* Python's tuple comparison a <= b on two-element keys
KeyLE(a, b) == a[1] < b[1] \/ (a[1] = b[1] /\ a[2] <= b[2])

\* an insertion that puts a row before the rows with an equal key
RECURSIVE InsertStable_before_equal(_, _, _)
InsertStable_before_equal(sorted, k, rows) ==
  IF sorted = <<>> THEN <<k>>
  ELSE IF KeyLE(sort_key(rows[k]), sort_key(rows[Head(sorted)]))
       THEN <<k>> \o sorted
       ELSE <<Head(sorted)>> \o InsertStable_before_equal(Tail(sorted), k, rows)

\* list.sort(key=sort_key) is a stable ascending sort.  The sorted list is
\* given as the sequence of positions of the rows in the unsorted list.
RECURSIVE InsertStable(_, _, _)
InsertStable(sorted, k, rows) ==
  IF sorted = <<>> THEN <<k>>
  ELSE IF KeyLE(sort_key(rows[Head(sorted)]), sort_key(rows[k]))
       THEN <<Head(sorted)>> \o InsertStable(Tail(sorted), k, rows)
       ELSE <<k>> \o sorted

RECURSIVE SortPrefix(_, _)
SortPrefix(rows, n) ==
  IF n = 0 THEN <<>> ELSE InsertStable(SortPrefix(rows, n - 1), n, rows)

SortOrder(rows) == SortPrefix(rows, Len(rows))

\* ------------------------------------------------------ per-fork operators
\* fork.get("default_branch") or "main"
ForkDefaultBranch(f) == OrMain(f.default_branch)

\* fork.get("stargazers_count", 0)
ForkStars(f) == GetOrZero(f.stargazers_count)

\* NotableDiffs with the threshold included (>= 200)
RECURSIVE NotableDiffs_at_least(_)
NotableDiffs_at_least(files) ==
  IF files = <<>> THEN <<>>
  ELSE LET file_info == Head(files)
           filename == IF file_info.filename = None THEN "" ELSE file_info.filename
       IN  IF GetOrZero(file_info.changes) >= NOTABLE_THRESHOLD
           THEN <<filename>> \o NotableDiffs_at_least(Tail(files))
           ELSE NotableDiffs_at_least(Tail(files))

\* NotableDiffs taking a file without a change count for a notable one
RECURSIVE NotableDiffs_missing_counts(_)
NotableDiffs_missing_counts(files) ==
  IF files = <<>> THEN <<>>
  ELSE LET file_info == Head(files)
           filename == IF file_info.filename = None THEN "" ELSE file_info.filename
       IN  IF file_info.changes = Absent \/ file_info.changes > NOTABLE_THRESHOLD
           THEN <<filename>> \o NotableDiffs_missing_counts(Tail(files))
           ELSE NotableDiffs_missing_counts(Tail(files))

\* lines 116-118: the filenames of the files with more than 200 changes
RECURSIVE NotableDiffs(_)
NotableDiffs(files) ==
  IF files = <<>> THEN <<>>
  ELSE LET file_info == Head(files)
           filename == IF file_info.filename = None THEN "" ELSE file_info.filename
       IN  IF GetOrZero(file_info.changes) > NOTABLE_THRESHOLD
           THEN <<filename>> \o NotableDiffs(Tail(files))
           ELSE NotableDiffs(Tail(files))

\* a branch lookup without its except clause
BranchCaught_nothing(kind) == FALSE

\* line 106, `except urllib.error.HTTPError`: the failures of the branch
\* lookup that are caught
BranchCaught(kind) == kind = "http"

\* line 119, `except urllib.error.HTTPError`: the failures of the compare
\* lookup that are caught
CompareCaught(kind) == kind = "http"

\* lines 103-107: commit_date after an answer that does not raise
BranchDate(answer) == IF answer.kind = "ok" THEN answer.date ELSE <<>>

\* lines 109-120: notable_diffs after an answer that does not raise
CompareDiffs(answer) ==
  IF answer.kind = "ok" THEN NotableDiffs(answer.files) ELSE <<COMPARE_FAILED>>

\* lines 122-131: the row appended to results
MakeRow(repo_name, f, date, diffs) ==
  [repo |-> repo_name,
   fork_owner |-> f.owner,
   default_branch |-> ForkDefaultBranch(f),
   last_commit_date |-> date,
   stars |-> ForkStars(f),
   notable_diffs |-> Join(";", diffs)]

\* ------------------------------------------------------------- environment
\* What the remote API may answer.  kind "ok" is a 2xx response, "http" a
\* non-2xx response (urllib.error.HTTPError), "url" a transport failure
\* (urllib.error.URLError that is no HTTPError).

\* fork items of a forks page, without their id; every item has owner.login
\* and name
ForkItems ==
  { [owner |-> "alice", name |-> "fork", default_branch |-> None,
     stargazers_count |-> 5],
    [owner |-> "bob", name |-> "fork", default_branch |-> "dev",
     stargazers_count |-> Absent] }

RECURSIVE SeqsUpTo(_, _)
SeqsUpTo(S, n) ==
  IF n = 0 THEN {<<>>}
  ELSE LET shorter == SeqsUpTo(S, n - 1)
       IN  shorter \cup {Append(q, x) : q \in {r \in shorter : Len(r) = n - 1}, x \in S}

\* the URL of page `page` of a forks listing, as the remote names it
CursorUrl(repo_name, page) ==
  <<API_ROOT, "/repositories/", repo_name, "/forks", "?", "page=", ToString(page)>>

\* The remote's links are pairs of a URL and a relation name; the header it
\* sends is their rendering `<url>; rel="name"`, joined by ", ".
LinkPart(url, rel) == <<"<">> \o url \o <<">", ";", " ", "rel=", "\"", rel, "\"">>

RECURSIVE RenderLink(_)
RenderLink(links) ==
  IF links = <<>> THEN <<>>
  ELSE LinkPart(Head(links).url, Head(links).rel)
       \o (IF Len(links) > 1 THEN <<",", " ">> \o RenderLink(Tail(links)) ELSE <<>>)

\* the links of a page that has a successor: first and next
MoreLink(repo_name, page) ==
  <<[url |-> CursorUrl(repo_name, 1), rel |-> "first"],
    [url |-> CursorUrl(repo_name, page + 1), rel |-> "next"]>>

\* the links of page `page`: none on the last page of a listing
LinkHeaders(repo_name, page) ==
  {<<>>} \cup (IF page < MaxPages THEN {MoreLink(repo_name, page)} ELSE {})

\* the page of the listing of repo_name that the URL names, 0 for a URL
\* that names none
PageOfUrl(repo_name, url) ==
  IF url = ForksUrl(repo_name) THEN 1
  ELSE IF \E k \in 1..MaxPages : url = CursorUrl(repo_name, k)
       THEN CHOOSE k \in 1..MaxPages : url = CursorUrl(repo_name, k)
       ELSE 0

UpstreamOutcomes ==
  { [kind |-> "ok", default_branch |-> "master"],
    [kind |-> "ok", default_branch |-> None],
    [kind |-> "http"], [kind |-> "url"] }

\* the items d as the remote lists them: the id of a fork is its rank in the
\* order in which the remote lists the forks, `before` forks come earlier
Listed(d, before) ==
  [i \in 1..Len(d) |->
     [id |-> before + i, owner |-> d[i].owner, name |-> d[i].name,
      default_branch |-> d[i].default_branch,
      stargazers_count |-> d[i].stargazers_count]]

\* "notlist": a 2xx body that is no JSON array, the object {}; a URL that names no page is
\* not answered by a 2xx response
PageOutcomes(repo_name, page, before, room) ==
  (IF page = 0 THEN {}
   ELSE { [kind |-> "ok", data |-> Listed(d, before), link |-> h] :
            d \in SeqsUpTo(ForkItems, room), h \in LinkHeaders(repo_name, page) }
        \cup {[kind |-> "notlist", data |-> <<>>, link |-> <<>>]})
  \cup { [kind |-> "http"], [kind |-> "url"] }

DATE_JAN == <<"2024-01-02", "T", "00:00:00", "Z">>
DATE_JUN == <<"2024-06-01", "T", "01:00:00", "+01:00">>

\* "nodate": a 2xx body without commit.commit.committer.date
BranchOutcomes ==
  { [kind |-> "ok", date |-> DATE_JAN], [kind |-> "ok", date |-> DATE_JUN],
    [kind |-> "nodate"], [kind |-> "http"], [kind |-> "url"] }

COMPARE_FILES ==
  << [filename |-> "a.sysml", changes |-> 200],
     [filename |-> "c.sysml", changes |-> 250],
     [filename |-> "n.sysml", changes |-> Absent],
     [filename |-> "b.sysml", changes |-> 201] >>

CompareOutcomes ==
  { [kind |-> "ok", files |-> COMPARE_FILES],
    [kind |-> "http"], [kind |-> "url"] }

\* ------------------------------------------------------------------- state
VARIABLES
  pc,                       \* where main is: "upstream", "forks", "branch",
                            \* "compare", "sort", "write", "exit"
  repo_i,                   \* position of repo_name in REPOSITORIES
  upstream_default_branch,
  gen_pc,                   \* the paginate generator: "start" or "items"
  next_url, next_params,    \* paginate's locals; <<>> is None
  data, item_i, link_header,\* the current page, items yielded, its Link header
  link_rels,                \* the links the remote rendered into link_header
  fork, commit_date,        \* locals of the loop over forks
  results,                  \* collect_fork_data's results
  order,                    \* the sorted data as positions in results
  stdout, stderr, exit_code,
  last_request,             \* the URL of the last request that was opened
  page_no,                  \* requests made by the current enumeration
  served,                   \* fork items served so far, per repository
  more_pages,               \* the remote announced a page after the last one served
  hist,                     \* per row of results: the answers it was built from
  branch_answer,            \* the answer to the current fork's branch lookup
  answered                  \* the last request made and the kind of its answer

vars ==
  <<pc, repo_i, upstream_default_branch, gen_pc, next_url, next_params, data,
    item_i, link_header, link_rels, fork, commit_date, results, order, stdout, stderr,
    exit_code, last_request, page_no, served, more_pages, hist, branch_answer,
    answered>>

NoFork == [id |-> 0, owner |-> None, name |-> None, default_branch |-> None,
           stargazers_count |-> Absent]

repo_name == REPOSITORIES[repo_i]

TotalServed == served[1] + served[2] + served[3]

Init ==
  /\ pc = "upstream"
  /\ repo_i = 1
  /\ upstream_default_branch = None
  /\ gen_pc = "start"
  /\ next_url = <<>>
  /\ next_params = <<>>
  /\ data = <<>>
  /\ item_i = 0
  /\ link_header = <<>>
  /\ link_rels = <<>>
  /\ fork = NoFork
  /\ commit_date = <<>>
  /\ results = <<>>
  /\ order = <<>>
  /\ stdout = [header |-> FALSE, rows |-> <<>>]
  /\ stderr = ""
  /\ exit_code = Absent
  /\ last_request = <<>>
  /\ page_no = 0
  /\ served = [i \in 1..Len(REPOSITORIES) |-> 0]
  /\ more_pages = FALSE
  /\ hist = <<>>
  /\ branch_answer = [kind |-> "none"]
  /\ answered = [site |-> "none", kind |-> "none"]

\* an abort that writes the rows collected so far
Abort_flush(message) ==
  /\ pc' = "exit"
  /\ stdout' = [header |-> TRUE, rows |-> results]
  /\ exit_code' = 1
  /\ stderr' = message

\* main's except clauses (lines 141-146) and an uncaught exception: nothing
\* is written to stdout, the exit status is 1
Abort(message) ==
  /\ pc' = "exit"
  /\ stdout' = stdout
  /\ exit_code' = 1
  /\ stderr' = message

ErrorMessage(kind) ==
  CASE kind = "http" -> "GitHub API request failed"
    [] kind = "url" -> "Network error"
    [] OTHER -> "Traceback"

\* lines 87-93: fetch the upstream repository, create the forks generator
FetchUpstream ==
  /\ pc = "upstream"
  /\ \E answer \in UpstreamOutcomes :
       /\ last_request' = RequestUrl(RepoUrl(repo_name), <<>>)
       /\ answered' = [site |-> "upstream", kind |-> answer.kind]
       /\ IF answer.kind = "ok" /\ answer.default_branch # None
          THEN /\ upstream_default_branch' = answer.default_branch
               /\ next_url' = ForksUrl(repo_name)
               /\ next_params' = FORKS_PARAMS
               /\ gen_pc' = "start"
               /\ page_no' = 0
               /\ pc' = "forks"
               /\ UNCHANGED <<stdout, stderr, exit_code>>
          ELSE /\ Abort(ErrorMessage(IF answer.kind = "ok"
                                                  THEN "keyerror" ELSE answer.kind))
               /\ UNCHANGED <<upstream_default_branch, next_url, next_params,
                              gen_pc, page_no>>
  /\ UNCHANGED <<repo_i, data, item_i, link_header, link_rels, fork, commit_date, results,
                 order, served, more_pages, hist, branch_answer>>

\* The generator is resumed with no item left to yield: either it has not
\* run yet, or the page is used up and lines 64-77 compute the next URL.
\* GenResumes fetching ahead, before the page is used up
GenResumes_eager == pc = "forks"

GenResumes == pc = "forks" /\ (gen_pc = "start" \/ item_i = Len(data))
\* GenNextUrl requesting the URL of the last request again
GenNextUrl_same_url == next_url

GenNextUrl == IF gen_pc = "start" THEN next_url ELSE ParseLink(link_header)
\* GenNextParams keeping the parameters of the first request
GenNextParams_kept == next_params

GenNextParams == IF gen_pc = "start" THEN next_params ELSE <<>>

\* IsList taking any JSON document for a list
IsList_any_json(answer) == TRUE

\* line 59: isinstance(data, list), of the body of a response
IsList(answer) == answer.kind = "ok"

\* lines 57-60: request the next page
PaginateRequest ==
  /\ GenResumes
  /\ GenNextUrl # <<>>
  /\ \E answer \in PageOutcomes(repo_name, PageOfUrl(repo_name, GenNextUrl),
                                 TotalServed, MaxForks - TotalServed) :
       /\ last_request' = RequestUrl(GenNextUrl, GenNextParams)
       /\ answered' = [site |-> "page", kind |-> answer.kind]
       /\ page_no' = page_no + 1
       /\ next_url' = GenNextUrl
       /\ next_params' = GenNextParams
       /\ IF answer.kind \notin {"http", "url"} /\ IsList(answer)
          THEN /\ data' = answer.data
               /\ link_header' = RenderLink(answer.link)
               /\ link_rels' = answer.link
               /\ item_i' = 0
               /\ gen_pc' = "items"
               /\ served' = [served EXCEPT ![repo_i] = @ + Len(answer.data)]
               /\ more_pages' = (\E i \in 1..Len(answer.link) :
                                    answer.link[i].rel = "next")
               /\ UNCHANGED <<pc, stdout, stderr, exit_code>>
          ELSE /\ Abort(ErrorMessage(answer.kind))
               /\ UNCHANGED <<data, link_header, link_rels, item_i, gen_pc,
                              served, more_pages>>
  /\ UNCHANGED <<repo_i, upstream_default_branch, fork, commit_date, results,
                 order, hist, branch_answer>>

\* line 57 with next_url None: the generator ends, and so does the loop over
\* forks; line 86 takes the next repository or line 132 returns
PaginateStop ==
  /\ GenResumes
  /\ GenNextUrl = <<>>
  /\ next_url' = <<>>
  /\ next_params' = <<>>
  /\ IF repo_i < Len(REPOSITORIES)
     THEN repo_i' = repo_i + 1 /\ pc' = "upstream"
     ELSE repo_i' = repo_i /\ pc' = "sort"
  /\ UNCHANGED <<upstream_default_branch, gen_pc, data, item_i, link_header, link_rels,
                 fork, commit_date, results, order, stdout, stderr, exit_code,
                 last_request, page_no, served, more_pages, hist, branch_answer,
                 answered>>

\* lines 61-62 and 95-98: the generator yields the next item of the page
YieldFork ==
  /\ pc = "forks"
  /\ gen_pc = "items"
  /\ item_i < Len(data)
  /\ fork' = data[item_i + 1]
  /\ item_i' = item_i + 1
  /\ pc' = "branch"
  /\ UNCHANGED <<repo_i, upstream_default_branch, gen_pc, next_url, next_params,
                 data, link_header, link_rels, commit_date, results, order, stdout,
                 stderr,
                 exit_code, last_request, page_no, served, more_pages, hist,
                 branch_answer,
                 answered>>

\* lines 100-107: the branch lookup; only HTTPError is caught
BranchLookup ==
  /\ pc = "branch"
  /\ \E answer \in BranchOutcomes :
       /\ last_request' =
            RequestUrl(BranchUrl(fork.owner, fork.name, ForkDefaultBranch(fork)), <<>>)
       /\ branch_answer' = answer
       /\ answered' = [site |-> "branch", kind |-> answer.kind]
       /\ IF answer.kind = "ok" \/ BranchCaught(answer.kind)
          THEN /\ commit_date' = BranchDate(answer)
               /\ pc' = "compare"
               /\ UNCHANGED <<stdout, stderr, exit_code>>
          ELSE /\ Abort(ErrorMessage(answer.kind))
               /\ UNCHANGED commit_date
  /\ UNCHANGED <<repo_i, upstream_default_branch, gen_pc, next_url, next_params,
                 data, item_i, link_header, link_rels, fork, results, order, page_no,
                 served, more_pages, hist>>

\* lines 109-131: the compare lookup and the row; only HTTPError is caught
CompareLookup ==
  /\ pc = "compare"
  /\ \E answer \in CompareOutcomes :
       /\ last_request' =
            RequestUrl(CompareUrl(repo_name, upstream_default_branch, fork.owner,
                                  ForkDefaultBranch(fork)), <<>>)
       /\ answered' = [site |-> "compare", kind |-> answer.kind]
       /\ IF answer.kind = "ok" \/ CompareCaught(answer.kind)
          THEN /\ results' = Append(results, MakeRow(repo_name, fork, commit_date,
                                                     CompareDiffs(answer)))
               /\ hist' = Append(hist, [repo |-> repo_i, fork |-> fork,
                                        branch |-> branch_answer,
                                        compare |-> answer])
               /\ pc' = "forks"
               /\ UNCHANGED <<stdout, stderr, exit_code>>
          ELSE /\ Abort(ErrorMessage(answer.kind))
               /\ UNCHANGED <<results, hist>>
  /\ UNCHANGED <<repo_i, upstream_default_branch, gen_pc, next_url, next_params,
                 data, item_i, link_header, link_rels, fork, commit_date, order, page_no,
                 served, more_pages, branch_answer>>

\* line 156: data.sort(key=sort_key)
SortData ==
  /\ pc = "sort"
  /\ order' = SortOrder(results)
  /\ pc' = "write"
  /\ UNCHANGED <<repo_i, upstream_default_branch, gen_pc, next_url, next_params,
                 data, item_i, link_header, link_rels, fork, commit_date, results, stdout,
                 stderr, exit_code, last_request, page_no, served, more_pages, hist,
                 branch_answer, answered>>

\* lines 158-172: the header, one line per row, exit status 0
WriteRows ==
  /\ pc = "write"
  /\ stdout' = [header |-> TRUE,
                rows |-> [i \in 1..Len(order) |-> results[order[i]]]]
  /\ exit_code' = 0
  /\ pc' = "exit"
  /\ UNCHANGED <<repo_i, upstream_default_branch, gen_pc, next_url, next_params,
                 data, item_i, link_header, link_rels, fork, commit_date, results, order,
                 stderr, last_request, page_no, served, more_pages, hist,
                 branch_answer,
                 answered>>

Next ==
  \/ FetchUpstream
  \/ PaginateRequest
  \/ PaginateStop
  \/ YieldFork
  \/ BranchLookup
  \/ CompareLookup
  \/ SortData
  \/ WriteRows

Spec == Init /\ [][Next]_vars

\* The program is one sequential thread and every request has a timeout
\* (line 46): a step that can be taken is taken.
FairSpec == Spec /\ WF_vars(Next)

\* ------------------------------------------- lines 64-76 on any Link header
\* The links a header is made of: cursors as the remote issues them, and a
\* cursor whose query holds a comma, which a URL may (RFC 3986, sub-delims).
MaxParts == 2

PLAIN_CURSOR == CursorUrl(REPOSITORIES[1], 2)
OTHER_CURSOR == CursorUrl(REPOSITORIES[1], 1)
COMMA_CURSOR == <<API_ROOT, "/repositories/1/forks", "?", "after=a", ",", "b">>

LinkSegments ==
  {[url |-> PLAIN_CURSOR, rel |-> r] : r \in {"next", "prev", "last"}}
    \cup {[url |-> OTHER_CURSOR, rel |-> r] : r \in {"next", "first"}}
    \cup {[url |-> COMMA_CURSOR, rel |-> r] : r \in {"next", "prev"}}

\* a page has been read, with any header of up to MaxParts links
InitLink ==
  /\ pc = "parse"
  /\ link_rels \in SeqsUpTo(LinkSegments, MaxParts)
  /\ link_header = RenderLink(link_rels)
  /\ repo_i = 1
  /\ upstream_default_branch = "master"
  /\ gen_pc = "items"
  /\ next_url = ForksUrl(repo_name)
  /\ next_params = FORKS_PARAMS
  /\ data = <<>>
  /\ item_i = 0
  /\ fork = NoFork
  /\ commit_date = <<>>
  /\ results = <<>>
  /\ order = <<>>
  /\ stdout = [header |-> FALSE, rows |-> <<>>]
  /\ stderr = ""
  /\ exit_code = Absent
  /\ last_request = RequestUrl(ForksUrl(repo_name), FORKS_PARAMS)
  /\ page_no = 1
  /\ served = [i \in 1..Len(REPOSITORIES) |-> 0]
  /\ more_pages = (\E i \in 1..Len(link_rels) : link_rels[i].rel = "next")
  /\ hist = <<>>
  /\ branch_answer = [kind |-> "none"]
  /\ answered = [site |-> "page", kind |-> "ok"]

\* lines 64-77: next_url and next_params after the page
ParseHeader ==
  /\ pc = "parse"
  /\ next_url' = ParseLink(link_header)
  /\ next_params' = <<>>
  /\ pc' = "parsed"
  /\ UNCHANGED <<repo_i, upstream_default_branch, gen_pc, data, item_i,
                 link_header, link_rels, fork, commit_date, results, order,
                 stdout, stderr, exit_code, last_request, page_no, served,
                 more_pages, hist, branch_answer, answered>>

NextLink == ParseHeader

SpecLink == InitLink /\ [][NextLink]_vars

\* ------------------------------------------------- the run as a function
\* collect_fork_data as a function of the answers the forks were given: the
\* rows it appends, and whether an answer raises out of it.
HistRows(h) ==
  [i \in 1..Len(h) |->
     MakeRow(REPOSITORIES[h[i].repo], h[i].fork, BranchDate(h[i].branch),
             CompareDiffs(h[i].compare))]

HistAborts(h) ==
  \E i \in 1..Len(h) :
    \/ ~(h[i].branch.kind = "ok" \/ BranchCaught(h[i].branch.kind))
    \/ ~(h[i].compare.kind = "ok" \/ CompareCaught(h[i].compare.kind))

\* ------------------------------------------------------------- the claims
Succeeded == pc = "exit" /\ exit_code = 0

NothingWritten == stdout = [header |-> FALSE, rows |-> <<>>]

RowsOfRepo(rows, r) ==
  Cardinality({i \in 1..Len(rows) : rows[i].repo = REPOSITORIES[r]})

\* an enumeration has ended: the loop over forks was left
EnumerationEnded ==
  (pc = "upstream" /\ repo_i > 1) \/ pc \in {"sort", "write"} \/ Succeeded

HasTime(row) == row.last_commit_date # <<>>

\* row a has a strictly later timestamp than row b; absent is the oldest
Later(a, b) ==
  HasTime(a) /\ (~HasTime(b)
                 \/ IsoTimestamp(a.last_commit_date) > IsoTimestamp(b.last_commit_date))

SameTime(a, b) == ~Later(a, b) /\ ~Later(b, a)

\* fork a was retrieved before fork b: the remote listed it earlier, in an
\* earlier repository, on an earlier page or earlier on the same page
RetrievedBefore(a, b) == a.repo <= b.repo /\ a.fork.id < b.fork.id

\* the sequence q without the element k
Without(q, k) == SelectSeq(q, LAMBDA x : x # k)

\* C1: in a run that completes successfully, every repository has as many
\* output rows as fork items were returned on all the pages of its forks
\* listing; nothing is dropped or duplicated, and the listing is walked
\* to its last page.
C1_RowsEqualServedItems ==
  /\ \A r \in 1..Len(REPOSITORIES) : RowsOfRepo(results, r) <= served[r]
  /\ EnumerationEnded => ~more_pages
  /\ Succeeded =>
       \A r \in 1..Len(REPOSITORIES) : RowsOfRepo(stdout.rows, r) = served[r]

\* a successful run whose last listing had two pages, the second one empty
C1_Witness ==
  /\ Succeeded
  /\ page_no = 2 /\ data = <<>>
  /\ served[1] = 1 /\ served[3] = 1

\* C2: when the upstream fetch or a forks page fetch fails (HTTP error or
\* transport error) the run ends with a non-zero exit status and not a
\* single row is written, rows collected before the failure included.
C2_FatalFetchWritesNothing ==
  answered.site \in {"upstream", "page"} /\ answered.kind \in {"http", "url"}
    => pc = "exit" /\ exit_code > 0 /\ NothingWritten

\* a forks page of the second repository fails after a row was collected
C2_Witness ==
  /\ answered = [site |-> "page", kind |-> "url"]
  /\ repo_i = 2
  /\ Len(results) >= 1
  /\ pc = "exit"

\* C3: a transport failure of a branch lookup or of a compare lookup does
\* not end the run: the fork goes on to its compare lookup with an empty
\* date, respectively gets its row with empty or sentinel notable diffs.
C3_TransportFailureDegrades ==
  answered.kind = "url" /\ answered.site \in {"branch", "compare"}
    => /\ exit_code # 1
       /\ answered.site = "branch" /\ pc = "compare" => commit_date = <<>>

\* C4: a fork whose branch lookup is answered by a non-2xx response goes on
\* to its compare lookup with an empty date and the run is not ended by
\* it; the row the fork gets has an empty last_commit_date and the stars
\* and default_branch of the fork listing, and a successful run writes
\* exactly one row for it.
C4_BranchHttpErrorKeepsRow ==
  /\ answered = [site |-> "branch", kind |-> "http"]
       => pc = "compare" /\ commit_date = <<>> /\ exit_code = Absent
  /\ \A i \in 1..Len(hist) :
       hist[i].branch.kind = "http" =>
         /\ results[i].last_commit_date = <<>>
         /\ results[i].fork_owner = hist[i].fork.owner
         /\ results[i].stars = (IF hist[i].fork.stargazers_count = Absent
                                THEN 0 ELSE hist[i].fork.stargazers_count)
         /\ results[i].default_branch =
              (IF hist[i].fork.default_branch \in {None, ""}
               THEN "main" ELSE hist[i].fork.default_branch)
         /\ Succeeded =>
              /\ Cardinality({j \in 1..Len(order) : order[j] = i}) = 1
              /\ \A j \in 1..Len(stdout.rows) :
                   order[j] = i => stdout.rows[j] = results[i]
  /\ Len(hist) = Len(results)
  /\ Succeeded => Len(stdout.rows) = Len(results)

\* a successful run with two rows, one of a fork with five stars whose
\* branch lookup was answered by a non-2xx response
C4_Witness ==
  /\ Succeeded
  /\ Len(results) = 2
  /\ \E i \in 1..Len(hist) :
       hist[i].branch.kind = "http" /\ hist[i].fork.stargazers_count = 5

\* C5: a failure of the compare lookup never ends the run: the fork gets a
\* row whose notable diffs are empty or the sentinel.
C5_CompareFailureKeepsRow ==
  answered.site = "compare" /\ answered.kind \in {"http", "url"}
    => /\ exit_code # 1
       /\ results # <<>>
       /\ results[Len(results)].notable_diffs \in {<<>>, <<COMPARE_FAILED>>}

\* C6: take a successful run and a fork whose branch lookup succeeded, and
\* the same run with that one lookup failing (by a non-2xx response or a
\* transport failure): the second run still has the row of every other
\* fork, with the same fields, and the other rows are in the same order.
C6_OtherRowsUnaffected ==
  Succeeded =>
    \A k \in 1..Len(hist) : \A failure \in {"http", "url"} :
      hist[k].branch.kind = "ok" =>
        LET h2 == [hist EXCEPT ![k].branch = [kind |-> failure]]
            rows2 == HistRows(h2)
        IN  /\ ~HistAborts(h2)
            /\ \A i \in 1..Len(hist) : i # k => rows2[i] = results[i]
            /\ Without(SortOrder(rows2), k) = Without(order, k)

\* C7: in the output of a successful run, of two adjacent rows the first
\* has a strictly later timestamp, or the same timestamp and at least as
\* many stars.
C7_AdjacentRowsOrdered ==
  Succeeded =>
    \A j \in 1..(Len(stdout.rows) - 1) :
      LET a == stdout.rows[j]
          b == stdout.rows[j + 1]
      IN  Later(a, b) \/ (SameTime(a, b) /\ a.stars >= b.stars)

\* two rows with the same timestamp that the sort has swapped
C7_Witness ==
  /\ Succeeded
  /\ order = <<2, 1>>
  /\ HasTime(results[1]) /\ SameTime(results[1], results[2])
  /\ results[2].stars > results[1].stars

\* C8: in the output every row without a timestamp comes after every row
\* with one, and the rows without a timestamp are by stars descending.
C8_AbsentTimestampLast ==
  Succeeded =>
    \A i, j \in 1..Len(stdout.rows) :
      i < j =>
        /\ ~(~HasTime(stdout.rows[i]) /\ HasTime(stdout.rows[j]))
        /\ ~HasTime(stdout.rows[i]) /\ ~HasTime(stdout.rows[j])
             => stdout.rows[i].stars >= stdout.rows[j].stars

\* a row without a timestamp that was retrieved first and is written last
C8_Witness ==
  /\ Succeeded
  /\ order = <<2, 1>>
  /\ ~HasTime(results[1]) /\ HasTime(results[2])

\* C9: two rows with the same timestamp and the same stars are written in
\* the order in which their forks were retrieved.
C9_TiesKeepRetrievalOrder ==
  Succeeded =>
    \A i, j \in 1..Len(order) :
      /\ i < j
      /\ SameTime(results[order[i]], results[order[j]])
      /\ results[order[i]].stars = results[order[j]].stars
      => RetrievedBefore(hist[order[i]], hist[order[j]])

\* two different rows of one repository that tie on timestamp and stars
C9_Witness ==
  /\ Succeeded
  /\ Len(results) = 2
  /\ hist[1].repo = hist[2].repo
  /\ HasTime(results[1]) /\ SameTime(results[1], results[2])
  /\ results[1].stars = results[2].stars
  /\ results[1] # results[2]

\* C10: when the compare lookup of a fork succeeds, the notable diffs of its
\* row are the filenames of the files with more than 200 changes, in the
\* order of the comparison: 200 changes are left out, 201 are in.
C10_NotableDiffsFilter ==
  \A i \in 1..Len(hist) :
    hist[i].compare.kind = "ok" =>
      LET notable == SelectSeq(hist[i].compare.files,
                               LAMBDA f : f.changes # Absent /\ f.changes > 200)
      IN  SelectSeq(results[i].notable_diffs, LAMBDA t : t # ";")
            = [n \in 1..Len(notable) |-> notable[n].filename]

\* a row of a comparison with files of 200, 250 and 201 changes
C10_Witness ==
  \E i \in 1..Len(hist) :
    /\ hist[i].compare.kind = "ok"
    /\ \E n \in 1..Len(hist[i].compare.files) : hist[i].compare.files[n].changes = 200
    /\ \E n \in 1..Len(hist[i].compare.files) : hist[i].compare.files[n].changes = 201
    /\ results[i].notable_diffs = <<"c.sysml", ";", "b.sysml">>

\* the entries of a row's notable_diffs: its tokens but the separators
DiffEntries(row) == SelectSeq(row.notable_diffs, LAMBDA t : t # ";")

\* t is the filename of a file of the comparison with more than 200 changes
IsNotableFile(t, compare) ==
  /\ compare.kind = "ok"
  /\ \E n \in 1..Len(compare.files) :
       /\ compare.files[n].filename = t
       /\ compare.files[n].changes # Absent
       /\ compare.files[n].changes > 200

\* C11 as stated: every entry of every record's notable_diffs is a file of
\* the fork's comparison with more than 200 changes.
C11_OnlyNotableFiles ==
  \A i \in 1..Len(results) :
    \A n \in 1..Len(DiffEntries(results[i])) :
      IsNotableFile(DiffEntries(results[i])[n], hist[i].compare)

\* C11 as amended: every entry of every record's notable_diffs is a file of
\* the fork's comparison with more than 200 changes, but for the record of
\* a fork whose compare lookup was answered by a non-2xx response, which
\* holds the one entry "<compare failed>".
C11_OnlyNotableFilesOrSentinel ==
  \A i \in 1..Len(results) :
    IF hist[i].compare.kind = "ok"
    THEN \A n \in 1..Len(DiffEntries(results[i])) :
           IsNotableFile(DiffEntries(results[i])[n], hist[i].compare)
    ELSE results[i].notable_diffs = <<COMPARE_FAILED>>

\* a record with notable files and a record of a failed comparison
C11_Witness ==
  \E i, j \in 1..Len(results) :
    /\ hist[i].compare.kind = "ok" /\ Len(DiffEntries(results[i])) = 2
    /\ hist[j].compare.kind = "http"

\* C12 as stated: a repository whose metadata is answered without a
\* default_branch is processed with the base branch "main": the answer
\* leaves the run at the listing of the forks, with a base branch.
C12_MissingDefaultBranchUsesMain ==
  answered = [site |-> "upstream", kind |-> "ok"]
    => pc = "forks" /\ exit_code = Absent
       /\ upstream_default_branch \in {"master", "main"}

\* C13: a forks page whose body is not a JSON array ends the run with a
\* non-zero exit status; nothing is written, rows collected before
\* included, and no request follows it.
C13_NonListPageIsFatal ==
  [][ /\ answered' = [site |-> "page", kind |-> "notlist"]
           => pc' = "exit" /\ exit_code' > 0 /\ NothingWritten'
      /\ answered # [site |-> "page", kind |-> "notlist"] ]_vars

\* a forks page of the second repository is not a list, after a row was
\* collected
C13_Witness ==
  /\ answered = [site |-> "page", kind |-> "notlist"]
  /\ repo_i = 2
  /\ Len(results) >= 1
  /\ pc = "exit"

\* C14: an enumeration requests every page of the chain exactly once: its
\* k-th request is for the k-th page of the chain, so no cursor is used
\* twice, and when the enumeration ends the number of its requests is the
\* number of the pages of the chain.
C14_OneRequestPerPage ==
  [][ /\ page_no' # page_no /\ page_no' # 0
           => /\ page_no' = page_no + 1
              /\ PageOfUrl(repo_name, next_url') = page_no'
      /\ pc = "forks" /\ pc' \in {"upstream", "sort"}
           => /\ page_no >= 1
              /\ PageOfUrl(repo_name, next_url) = page_no
              /\ ~more_pages ]_vars

\* the enumeration of the first repository has ended after its two pages
C14_Witness ==
  /\ pc = "upstream" /\ repo_i = 2
  /\ page_no = 2
  /\ served[1] = 2

\* C15: an enumeration ends exactly at the first page without a next
\* cursor: a follow-up request is made only after a page with a next
\* cursor, and the enumeration ends only after a page without one, all
\* the items of that page yielded and processed; the chain of cursors
\* being finite, every enumeration and the run eventually finish.
C15_EndsAtLastPage ==
  /\ [][ /\ page_no' = page_no + 1 /\ page_no >= 1
              => more_pages /\ item_i = Len(data)
         /\ pc = "forks" /\ pc' \in {"upstream", "sort"}
              => /\ ~more_pages
                 /\ item_i = Len(data)
                 /\ Len(results) = TotalServed ]_vars
  /\ [](pc = "forks" => <>(pc # "forks"))
  /\ <>(pc = "exit")

\* a run that finished after the second page of its last listing, with the
\* two forks of the listing processed
C15_Witness ==
  /\ Succeeded
  /\ page_no = 2 /\ ~more_pages
  /\ served[3] = 2 /\ Len(results) = 2

\* the cursor the remote returned with the last page: the URL of the first
\* link of its header with the relation next
ReturnedCursor ==
  LET i == CHOOSE k \in 1..Len(link_rels) :
             /\ link_rels[k].rel = "next"
             /\ \A j \in 1..(k - 1) : link_rels[j].rel # "next"
  IN  link_rels[i].url

\* C16: the first request of an enumeration is made to the forks URL with
\* the query per_page=100&sort=stargazers; every later request is made to
\* the cursor the remote returned with the page before, nothing appended.
C16_OnlyFirstRequestHasParams ==
  [][ page_no' = page_no + 1
        => last_request' =
             IF page_no = 0
             THEN ForksUrl(repo_name)
                    \o <<"?", "per_page=100", "&", "sort=stargazers">>
             ELSE IF more_pages THEN ReturnedCursor ELSE <<>> ]_vars

\* the second request of an enumeration went to the cursor of its first page
C16_Witness ==
  /\ answered = [site |-> "page", kind |-> "ok"]
  /\ page_no = 2
  /\ last_request = CursorUrl(repo_name, 2)
  /\ pc = "forks"

\* C17 as stated: for every Link header made of links "<url>; rel=...",
\* separated by commas, the next cursor is the URL of the first link with
\* the relation next, and there is none when the header is empty or has
\* no link with the relation next.
C17_NextCursorIsFirstNextLink ==
  pc = "parsed" =>
    next_url = IF more_pages THEN ReturnedCursor ELSE <<>>

\* C18: the requests are made one after the other in a fixed order.  The
\* repositories are taken in the configured order, one at a time.  The
\* metadata of a repository is requested when every fork listed so far has
\* its row, and the first forks page right after it.  A forks page is
\* requested when every fork listed so far has its row.  The branch lookup
\* of a fork is made when every fork listed before it has its row, and its
\* compare lookup is the request right after its branch lookup.
C18_RequestsInFixedOrder ==
  [][ /\ repo_i' \in {repo_i, repo_i + 1}
      /\ repo_i' # repo_i => pc = "forks" /\ pc' = "upstream"
      /\ pc = "upstream"
           => /\ last_request' = RepoUrl(REPOSITORIES[repo_i])
              /\ item_i = Len(data)
              /\ Len(results) = TotalServed
      /\ page_no' = page_no + 1
           => /\ page_no = 0 =>
                   /\ answered = [site |-> "upstream", kind |-> "ok"]
                   /\ last_request = RepoUrl(REPOSITORIES[repo_i])
              /\ item_i = Len(data)
              /\ Len(results) = TotalServed
      /\ pc = "branch"
           => /\ last_request' = BranchUrl(fork.owner, fork.name,
                                           ForkDefaultBranch(fork))
              /\ Len(results) = fork.id - 1
      /\ pc = "compare"
           => /\ answered.site = "branch"
              /\ last_request = BranchUrl(fork.owner, fork.name,
                                          ForkDefaultBranch(fork))
              /\ last_request' = CompareUrl(repo_name, upstream_default_branch,
                                            fork.owner, ForkDefaultBranch(fork))
              /\ Len(results) = fork.id - 1 ]_vars

\* the second forks page of the second repository has been requested, the
\* fork of the first repository and the fork of the page before processed
C18_Witness ==
  /\ repo_i = 2 /\ page_no = 2
  /\ answered = [site |-> "page", kind |-> "ok"]
  /\ served[1] = 1 /\ served[2] = 1
  /\ Len(results) = 2

\* C19 as stated: no outcome of a branch lookup or of a compare lookup ends
\* the run, so that a run whose repository fetches and forks listings
\* succeed writes one row for every fork listed; the fork of a branch
\* lookup answered 2xx without a commit date gets a row with an empty
\* last_commit_date.
C19_OneRowPerEnumeratedFork ==
  /\ answered.site \in {"branch", "compare"} => exit_code \in {Absent, 0}
  /\ answered = [site |-> "branch", kind |-> "nodate"]
       => pc = "compare" /\ commit_date = <<>>
  /\ \A i \in 1..Len(hist) :
       hist[i].branch.kind = "nodate" => results[i].last_commit_date = <<>>
  /\ Succeeded => Len(stdout.rows) = TotalServed

====
